---- MODULE Spec2Model ----
(***************************************************************************)
(* The Moonbeam runtime module (runtime/src/moonbeam.rs): a two-asset      *)
(* constant-product market with liquidity shares.  The storage items of    *)
(* decl_storage! are the state; every dispatchable of decl_module! is one  *)
(* action.  T::Balance is an unsigned integer type of the runtime's        *)
(* choosing; here it is the range 0..MaxBalance and raw arithmetic on it   *)
(* overflows at MaxBalance exactly as the fixed-width type does.           *)
(***************************************************************************)
EXTENDS Integers, FiniteSets, Sequences, TLC

\* ------------------------------------------------------------------ bounds
\* Largest value of T::Balance (stands for 2^w - 1).
MaxBalance == 7
\* Largest value of the u128 intermediates of get_price.
U128Max == 100000
\* Number of successful calls a behaviour may hold.
MaxCalls == 3
\* The canonical unit amount quoted by update_prices (stands for 10^12).
UnitAmount == 2

Account == {"alice", "bob"}
Balance == 0 .. MaxBalance
Modulus == MaxBalance + 1
\* Values the root origin writes with set_glmr_balance / set_token_balance.
SetValues == {1, 4, MaxBalance}

\* Option::None, and the value a storage map holds for a key never inserted.
None == -1

\* ------------------------------------------------------ arithmetic of Balance
\* a + b, a * b, a - b of the primitive type leave the range on overflow.
Overflows(x) == x > MaxBalance \/ x < 0
\* What a release build (no overflow checks) stores: the value modulo 2^w.
Wrap(x) == x % Modulus
\* CheckedAdd::checked_add
checked_add(a, b) == IF a + b > MaxBalance THEN None ELSE a + b
\* Saturating::saturating_add
saturating_add(a, b) == IF a + b > MaxBalance THEN MaxBalance ELSE a + b
\* u128::checked_mul, u128::checked_add, u128::checked_div
u128_checked_mul(a, b) == IF a * b > U128Max THEN None ELSE a * b
u128_checked_add(a, b) == IF a + b > U128Max THEN None ELSE a + b
u128_checked_div(a, b) == IF b = 0 THEN None ELSE a \div b
\* TryInto::<T::Balance>::try_into(u128).ok()
try_into_balance(x) == IF x > MaxBalance THEN None ELSE x

\* ------------------------------------------------------------------ storage
VARIABLES
    GlmrBalances,       \* map T::AccountId => T::Balance (None: no entry)
    GlmrPoolBalance,
    TokenBalances,
    TokenPoolBalance,
    LiquidBalances,
    TotalLiquidSupply,
    TokenPrice,
    GlmrPrice,
    overflow_checks,    \* the build: TRUE panics on overflow, FALSE wraps
    event,              \* the last event deposited, <<>> if none yet
    underflowed,        \* the last call evaluated a - b with b > a
    traded,             \* a trade succeeded since the pool was initialized
    calls               \* number of successful calls so far

vars == <<GlmrBalances, GlmrPoolBalance, TokenBalances, TokenPoolBalance,
          LiquidBalances, TotalLiquidSupply, TokenPrice, GlmrPrice,
          overflow_checks, event, underflowed, traded, calls>>

\* The storage as one value: what a dispatchable reads and writes.
Storage ==
    [GlmrBalances |-> GlmrBalances, GlmrPoolBalance |-> GlmrPoolBalance,
     TokenBalances |-> TokenBalances, TokenPoolBalance |-> TokenPoolBalance,
     LiquidBalances |-> LiquidBalances, TotalLiquidSupply |-> TotalLiquidSupply,
     TokenPrice |-> TokenPrice, GlmrPrice |-> GlmrPrice]

\* The getter of a storage map: the default (zero) for a key with no entry.
balance_of(map, who) == IF map[who] = None THEN 0 ELSE map[who]
\* <Map>::exists(&key)
exists(map, who) == map[who] # None

\* What a dispatchable leaves behind.
Ok(s, ev) == [st |-> s, result |-> "Ok", event |-> ev, underflow |-> FALSE]
Err(s, msg) == [st |-> s, result |-> msg, event |-> <<>>, underflow |-> FALSE]
\* A panic aborts the call; the executor discards what it wrote.
Panic(s) == [st |-> s, result |-> "panic", event |-> <<>>, underflow |-> FALSE]
\* The writes of a call that passed its checks.  `underflow` says that one of
\* its subtractions a - b had b > a: a build with overflow checks panics
\* there, a build without them has stored the wrapped difference.
Commit(s, written, ev, underflow) ==
    IF underflow /\ overflow_checks
    THEN [Panic(s) EXCEPT !.underflow = TRUE]
    ELSE [st |-> written, result |-> "Ok", event |-> ev, underflow |-> underflow]

\* --------------------------------------------------------------- get_price
\* get_price with the quotient rounded up instead of down.
get_price_rounded_up(amount, input_reserve, output_reserve) ==
    IF amount <= 0 \/ input_reserve <= 0 \/ output_reserve <= 0 THEN None
    ELSE LET numerator == output_reserve * amount * 997
             denominator == input_reserve * 1000 + amount * 997
         IN try_into_balance((numerator + denominator - 1) \div denominator)

\* get_price without the 0.3% fee.
get_price_no_fee(amount, input_reserve, output_reserve) ==
    IF amount <= 0 \/ input_reserve <= 0 \/ output_reserve <= 0 THEN None
    ELSE LET numerator == output_reserve * amount * 1000
             denominator == input_reserve * 1000 + amount * 1000
         IN try_into_balance(numerator \div denominator)

\* get_price at the spot rate: the input is left out of the denominator.
get_price_spot(amount, input_reserve, output_reserve) ==
    IF amount <= 0 \/ input_reserve <= 0 \/ output_reserve <= 0 THEN None
    ELSE LET numerator == output_reserve * amount * 997
             denominator == input_reserve * 1000
         IN try_into_balance(numerator \div denominator)

get_price(amount, input_reserve, output_reserve) ==
    IF amount <= 0 \/ input_reserve <= 0 \/ output_reserve <= 0 THEN None
    ELSE LET net_amount == u128_checked_mul(amount, 997) IN
      IF net_amount = None THEN None
      ELSE LET numerator == u128_checked_mul(output_reserve, net_amount) IN
        IF numerator = None THEN None
        ELSE LET multiplied_val == u128_checked_mul(input_reserve, 1000) IN
          IF multiplied_val = None THEN None
          ELSE LET denominator == u128_checked_add(multiplied_val, net_amount) IN
            IF denominator = None THEN None
            ELSE LET res == u128_checked_div(numerator, denominator) IN
              IF res = None THEN None ELSE try_into_balance(res)

\* 1000000000000u128.try_into().unwrap_or(T::Balance::from(0))
price_unit == IF try_into_balance(UnitAmount) = None THEN 0 ELSE UnitAmount

\* update_prices writing 0 for a quote that fails.
update_prices_sentinel(s) ==
    LET glmr_reserve == s.GlmrPoolBalance
        token_reserve == s.TokenPoolBalance
        glmr_price == get_price(price_unit, token_reserve, glmr_reserve)
        token_price == get_price(price_unit, glmr_reserve, token_reserve)
    IN [s EXCEPT !.GlmrPrice = IF glmr_price = None THEN 0 ELSE glmr_price,
                 !.TokenPrice = IF token_price = None THEN 0 ELSE token_price]

update_prices(s) ==
    LET glmr_reserve == s.GlmrPoolBalance
        token_reserve == s.TokenPoolBalance
        glmr_price == get_price(price_unit, token_reserve, glmr_reserve)
        token_price == get_price(price_unit, glmr_reserve, token_reserve)
    IN IF glmr_price # None /\ token_price # None
       THEN [s EXCEPT !.GlmrPrice = glmr_price, !.TokenPrice = token_price]
       ELSE s

\* ----------------------------------------------------- privileged operations
IsRoot(origin) == origin = "Root"
IsSigned(origin) == origin \in Account

set_glmr_balance(s, origin, account, value) ==
    IF ~IsRoot(origin) THEN Err(s, "bad origin: expected root")
    ELSE Ok([s EXCEPT !.GlmrBalances[account] = value], <<>>)

set_token_balance(s, origin, account, value) ==
    IF ~IsRoot(origin) THEN Err(s, "bad origin: expected root")
    ELSE Ok([s EXCEPT !.TokenBalances[account] = value], <<>>)

\* The body shared by the three transfers, on the map each of them names:
\* the sender's entry is written first, the recipient's second.
transfer_in(map, from, to, amount) ==
    LET from_balance == balance_of(map, from)
        to_balance == balance_of(map, to)
        debited == [map EXCEPT ![from] = Wrap(from_balance - amount)]
    IN [debited EXCEPT ![to] = saturating_add(to_balance, amount)]

transfer_glmr(s, origin, from, to, amount) ==
    IF ~IsRoot(origin) THEN Err(s, "bad origin: expected root")
    ELSE IF ~exists(s.GlmrBalances, from) THEN Err(s, "Glmr from account does not exist")
    ELSE IF ~(balance_of(s.GlmrBalances, from) > amount) THEN Err(s, "Not enough glmr for transfer")
    ELSE Commit(s, [s EXCEPT !.GlmrBalances = transfer_in(s.GlmrBalances, from, to, amount)], <<>>,
                amount > balance_of(s.GlmrBalances, from))

transfer_token(s, origin, from, to, amount) ==
    IF ~IsRoot(origin) THEN Err(s, "bad origin: expected root")
    ELSE IF ~exists(s.TokenBalances, from) THEN Err(s, "Token from account does not exist")
    ELSE IF ~(balance_of(s.TokenBalances, from) > amount) THEN Err(s, "Not enough token for transfer")
    ELSE Commit(s, [s EXCEPT !.TokenBalances = transfer_in(s.TokenBalances, from, to, amount)], <<>>,
                amount > balance_of(s.TokenBalances, from))

transfer_liquid(s, origin, from, to, amount) ==
    IF ~IsRoot(origin) THEN Err(s, "bad origin: expected root")
    ELSE IF ~exists(s.LiquidBalances, from) THEN Err(s, "Liquid from account does not exist")
    ELSE IF ~(balance_of(s.LiquidBalances, from) > amount) THEN Err(s, "Not enough liquid for transfer")
    ELSE Commit(s, [s EXCEPT !.LiquidBalances = transfer_in(s.LiquidBalances, from, to, amount)], <<>>,
                amount > balance_of(s.LiquidBalances, from))

\* ------------------------------------------------------- deposit_liquidity
\* add_liquidity with the sender's glmr debited before the token check.
add_liquidity_early_write(s, sender, glmr_value, sender_glmr_balance, sender_token_balance) ==
    LET total_liquid_supply == s.TotalLiquidSupply
        glmr_reserve == s.GlmrPoolBalance
        token_reserve == s.TokenPoolBalance
        token_quotient == Wrap(glmr_value * token_reserve) \div glmr_reserve
        token_amount == Wrap(token_quotient + 1)
        liquid_minted == Wrap(glmr_value * total_liquid_supply) \div glmr_reserve
        glmr_newbal == checked_add(glmr_reserve, glmr_value)
        token_newbal == checked_add(token_reserve, token_amount)
        sender_liquid_balance == balance_of(s.LiquidBalances, sender)
        liquid_newbal == checked_add(sender_liquid_balance, liquid_minted)
        liquid_supply_newbal == checked_add(total_liquid_supply, liquid_minted)
        debited == [s EXCEPT !.GlmrBalances[sender] = Wrap(sender_glmr_balance - glmr_value)]
    IN
    IF ~(glmr_reserve > 0)
    THEN Err(s, "There is liquidity in this exchange but the glmr reserve is empty")
    ELSE IF overflow_checks /\ (Overflows(glmr_value * token_reserve) \/ Overflows(token_quotient + 1))
    THEN Panic(s)
    ELSE IF ~(token_amount <= sender_token_balance)
    THEN Err(debited, "You do not have enough tokens to complete the deposit")
    ELSE IF overflow_checks /\ Overflows(glmr_value * total_liquid_supply)
    THEN Panic(s)
    ELSE IF glmr_newbal = None THEN Err(debited, "Glmr reserve balance overflow")
    ELSE IF token_newbal = None THEN Err(debited, "Token reserve balance overflow")
    ELSE IF liquid_newbal = None THEN Err(debited, "User liquid balance overflow")
    ELSE IF liquid_supply_newbal = None THEN Err(debited, "Liquid supply balance overflow")
    ELSE Commit(s,
           update_prices(
             [debited EXCEPT !.GlmrPoolBalance = glmr_newbal,
                       !.TokenBalances[sender] = Wrap(sender_token_balance - token_amount),
                       !.TokenPoolBalance = token_newbal,
                       !.LiquidBalances[sender] = liquid_newbal,
                       !.TotalLiquidSupply = liquid_supply_newbal]),
           <<"DepositLiquidity", sender, liquid_minted>>,
           glmr_value > sender_glmr_balance \/ token_amount > sender_token_balance)

\* add_liquidity without the check of line 146.
add_liquidity_unchecked(s, sender, glmr_value, sender_glmr_balance, sender_token_balance) ==
    LET total_liquid_supply == s.TotalLiquidSupply
        glmr_reserve == s.GlmrPoolBalance
        token_reserve == s.TokenPoolBalance
        token_amount == Wrap((Wrap(glmr_value * token_reserve) \div glmr_reserve) + 1)
        liquid_minted == Wrap(glmr_value * total_liquid_supply) \div glmr_reserve
    IN
    IF ~(glmr_reserve > 0)
    THEN Err(s, "There is liquidity in this exchange but the glmr reserve is empty")
    ELSE Commit(s,
           update_prices(
             [s EXCEPT !.GlmrBalances[sender] = Wrap(sender_glmr_balance - glmr_value),
                       !.GlmrPoolBalance = saturating_add(glmr_reserve, glmr_value),
                       !.TokenBalances[sender] = Wrap(sender_token_balance - token_amount),
                       !.TokenPoolBalance = saturating_add(token_reserve, token_amount),
                       !.LiquidBalances[sender] =
                           saturating_add(balance_of(s.LiquidBalances, sender), liquid_minted),
                       !.TotalLiquidSupply = saturating_add(total_liquid_supply, liquid_minted)]),
           <<"DepositLiquidity", sender, liquid_minted>>,
           glmr_value > sender_glmr_balance \/ token_amount > sender_token_balance)

\* Lines 143-177: the pool holds liquidity, the deposit is proportional.
add_liquidity(s, sender, glmr_value, sender_glmr_balance, sender_token_balance) ==
    LET total_liquid_supply == s.TotalLiquidSupply
        glmr_reserve == s.GlmrPoolBalance
        token_reserve == s.TokenPoolBalance
        token_quotient == Wrap(glmr_value * token_reserve) \div glmr_reserve
        token_amount == Wrap(token_quotient + 1)
        liquid_minted == Wrap(glmr_value * total_liquid_supply) \div glmr_reserve
        glmr_newbal == checked_add(glmr_reserve, glmr_value)
        token_newbal == checked_add(token_reserve, token_amount)
        sender_liquid_balance == balance_of(s.LiquidBalances, sender)
        liquid_newbal == checked_add(sender_liquid_balance, liquid_minted)
        liquid_supply_newbal == checked_add(total_liquid_supply, liquid_minted)
    IN
    IF ~(glmr_reserve > 0)
    THEN Err(s, "There is liquidity in this exchange but the glmr reserve is empty")
    ELSE IF overflow_checks /\ (Overflows(glmr_value * token_reserve) \/ Overflows(token_quotient + 1))
    THEN Panic(s)
    ELSE IF ~(token_amount <= sender_token_balance)
    THEN Err(s, "You do not have enough tokens to complete the deposit")
    ELSE IF overflow_checks /\ Overflows(glmr_value * total_liquid_supply)
    THEN Panic(s)
    ELSE IF glmr_newbal = None THEN Err(s, "Glmr reserve balance overflow")
    ELSE IF token_newbal = None THEN Err(s, "Token reserve balance overflow")
    ELSE IF liquid_newbal = None THEN Err(s, "User liquid balance overflow")
    ELSE IF liquid_supply_newbal = None THEN Err(s, "Liquid supply balance overflow")
    ELSE Commit(s,
           update_prices(
             [s EXCEPT !.GlmrBalances[sender] = Wrap(sender_glmr_balance - glmr_value),
                       !.GlmrPoolBalance = glmr_newbal,
                       !.TokenBalances[sender] = Wrap(sender_token_balance - token_amount),
                       !.TokenPoolBalance = token_newbal,
                       !.LiquidBalances[sender] = liquid_newbal,
                       !.TotalLiquidSupply = liquid_supply_newbal]),
           <<"DepositLiquidity", sender, liquid_minted>>,
           glmr_value > sender_glmr_balance \/ token_amount > sender_token_balance)

\* initialize_pool minting the token amount instead of the glmr amount.
initialize_pool_mint_tokens(s, sender, glmr_value, token_value, sender_glmr_balance, sender_token_balance) ==
    LET liquid_minted == token_value IN
    Commit(s,
      update_prices(
        [s EXCEPT !.GlmrPoolBalance = glmr_value,
                  !.GlmrBalances[sender] = Wrap(sender_glmr_balance - glmr_value),
                  !.TokenPoolBalance = token_value,
                  !.TokenBalances[sender] = Wrap(sender_token_balance - token_value),
                  !.TotalLiquidSupply = liquid_minted,
                  !.LiquidBalances[sender] = liquid_minted]),
      <<"DepositLiquidity", sender, liquid_minted>>,
      glmr_value > sender_glmr_balance \/ token_value > sender_token_balance)

\* initialize_pool without the insert into LiquidBalances.
initialize_pool_no_liquid(s, sender, glmr_value, token_value, sender_glmr_balance, sender_token_balance) ==
    LET liquid_minted == glmr_value IN
    Commit(s,
      update_prices(
        [s EXCEPT !.GlmrPoolBalance = glmr_value,
                  !.GlmrBalances[sender] = Wrap(sender_glmr_balance - glmr_value),
                  !.TokenPoolBalance = token_value,
                  !.TokenBalances[sender] = Wrap(sender_token_balance - token_value),
                  !.TotalLiquidSupply = liquid_minted]),
      <<"DepositLiquidity", sender, liquid_minted>>,
      glmr_value > sender_glmr_balance \/ token_value > sender_token_balance)

\* Lines 181-191: the pool holds no liquidity, the deposit initializes it.
initialize_pool(s, sender, glmr_value, token_value, sender_glmr_balance, sender_token_balance) ==
    LET liquid_minted == glmr_value IN
    Commit(s,
      update_prices(
        [s EXCEPT !.GlmrPoolBalance = glmr_value,
                  !.GlmrBalances[sender] = Wrap(sender_glmr_balance - glmr_value),
                  !.TokenPoolBalance = token_value,
                  !.TokenBalances[sender] = Wrap(sender_token_balance - token_value),
                  !.TotalLiquidSupply = liquid_minted,
                  !.LiquidBalances[sender] = liquid_minted]),
      <<"DepositLiquidity", sender, liquid_minted>>,
      glmr_value > sender_glmr_balance \/ token_value > sender_token_balance)

deposit_liquidity(s, origin, glmr_value, token_value) ==
    IF ~IsSigned(origin) THEN Err(s, "bad origin: expected signed")
    ELSE LET sender == origin
             sender_glmr_balance == balance_of(s.GlmrBalances, sender)
             sender_token_balance == balance_of(s.TokenBalances, sender)
         IN
         IF ~(sender_glmr_balance >= glmr_value)
         THEN Err(s, "Not enough glmr to cover liquidity deposit")
         ELSE IF ~(sender_token_balance >= token_value)
         THEN Err(s, "Not enough tokens to cover liquidity deposit")
         ELSE IF s.TotalLiquidSupply > 0
         THEN add_liquidity(s, sender, glmr_value, sender_glmr_balance, sender_token_balance)
         ELSE initialize_pool(s, sender, glmr_value, token_value,
                              sender_glmr_balance, sender_token_balance)

\* ------------------------------------------------------ withdraw_liquidity
withdraw_liquidity(s, origin, liquid_value) ==
    IF ~IsSigned(origin) THEN Err(s, "bad origin: expected signed")
    ELSE LET sender == origin
             total_liquid_supply == s.TotalLiquidSupply
             glmr_reserve == s.GlmrPoolBalance
             token_reserve == s.TokenPoolBalance
             glmr_amount == Wrap(liquid_value * glmr_reserve) \div total_liquid_supply
             token_amount == Wrap(liquid_value * token_reserve) \div total_liquid_supply
             sender_liquid_balance == balance_of(s.LiquidBalances, sender)
             sender_glmr_balance == balance_of(s.GlmrBalances, sender)
             sender_token_balance == balance_of(s.TokenBalances, sender)
             glmr_newbal == checked_add(sender_glmr_balance, glmr_amount)
             token_newbal == checked_add(sender_token_balance, token_amount)
         IN
         IF ~(total_liquid_supply > 0 /\ liquid_value <= total_liquid_supply)
         THEN Err(s, "Not enough liquidity in pool to withdraw")
         ELSE IF overflow_checks /\ (Overflows(liquid_value * glmr_reserve)
                                      \/ Overflows(liquid_value * token_reserve))
         THEN Panic(s)
         ELSE IF ~(liquid_value <= sender_liquid_balance)
         THEN Err(s, "Trying to withdraw more than owned liquidity")
         ELSE IF ~(glmr_amount <= glmr_reserve)
         THEN Err(s, "Trying to withdraw more GLMR than is in the pool")
         ELSE IF ~(token_amount <= token_reserve)
         THEN Err(s, "Trying to withdraw more Token than is in the pool")
         ELSE IF glmr_newbal = None THEN Err(s, "Glmr user balance overflow")
         ELSE IF token_newbal = None THEN Err(s, "Token user balance overflow")
         ELSE Commit(s,
                update_prices(
                  [s EXCEPT !.LiquidBalances[sender] = Wrap(sender_liquid_balance - liquid_value),
                            !.TotalLiquidSupply = Wrap(total_liquid_supply - liquid_value),
                            !.GlmrBalances[sender] = glmr_newbal,
                            !.GlmrPoolBalance = Wrap(glmr_reserve - glmr_amount),
                            !.TokenBalances[sender] = token_newbal,
                            !.TokenPoolBalance = Wrap(token_reserve - token_amount)]),
                <<"WithdrawLiquidity", sender, liquid_value>>,
                liquid_value > sender_liquid_balance \/ liquid_value > total_liquid_supply
                  \/ glmr_amount > glmr_reserve \/ token_amount > token_reserve)

\* ------------------------------------------------------------------ trades
trade_glmr_to_token(s, origin, glmr_value) ==
    IF ~IsSigned(origin) THEN Err(s, "bad origin: expected signed")
    ELSE LET sender == origin
             glmr_reserve == s.GlmrPoolBalance
             token_reserve == s.TokenPoolBalance
             tokens_bought == get_price(glmr_value, glmr_reserve, token_reserve)
             sender_glmr_balance == balance_of(s.GlmrBalances, sender)
             sender_token_balance == balance_of(s.TokenBalances, sender)
             glmr_pool_newbal == checked_add(glmr_reserve, glmr_value)
             token_newbal == checked_add(sender_token_balance, tokens_bought)
         IN
         IF tokens_bought = None THEN Err(s, "Error caluculating number of tokens in trade")
         ELSE IF ~(sender_glmr_balance >= glmr_value) THEN Err(s, "Not enough glmr to execute trade")
         ELSE IF ~(token_reserve >= tokens_bought) THEN Err(s, "Not enough tokens to execute trade")
         ELSE IF glmr_pool_newbal = None THEN Err(s, "GLMR pool balance overflow")
         ELSE IF token_newbal = None THEN Err(s, "User token balance overflow")
         ELSE Commit(s,
                update_prices(
                  [s EXCEPT !.GlmrBalances[sender] = Wrap(sender_glmr_balance - glmr_value),
                            !.GlmrPoolBalance = glmr_pool_newbal,
                            !.TokenBalances[sender] = token_newbal,
                            !.TokenPoolBalance = Wrap(token_reserve - tokens_bought)]),
                <<"TokenPurchase", sender, tokens_bought>>,
                glmr_value > sender_glmr_balance \/ tokens_bought > token_reserve)

trade_token_to_glmr(s, origin, token_value) ==
    IF ~IsSigned(origin) THEN Err(s, "bad origin: expected signed")
    ELSE LET sender == origin
             glmr_reserve == s.GlmrPoolBalance
             token_reserve == s.TokenPoolBalance
             glmr_bought == get_price(token_value, token_reserve, glmr_reserve)
             sender_token_balance == balance_of(s.TokenBalances, sender)
             sender_glmr_balance == balance_of(s.GlmrBalances, sender)
             token_pool_newbal == checked_add(token_reserve, token_value)
             glmr_newbal == checked_add(sender_glmr_balance, glmr_bought)
         IN
         IF glmr_bought = None THEN Err(s, "Error caluculating number of GLMR in trade")
         ELSE IF ~(sender_token_balance >= token_value) THEN Err(s, "Not enough tokens to execute trade")
         ELSE IF ~(glmr_reserve >= glmr_bought) THEN Err(s, "Not enough glmr to execute trade")
         ELSE IF token_pool_newbal = None THEN Err(s, "Token pool balance overflow")
         ELSE IF glmr_newbal = None THEN Err(s, "User GLMR balance overflow")
         ELSE Commit(s,
                update_prices(
                  [s EXCEPT !.TokenBalances[sender] = Wrap(sender_token_balance - token_value),
                            !.TokenPoolBalance = token_pool_newbal,
                            !.GlmrBalances[sender] = glmr_newbal,
                            !.GlmrPoolBalance = Wrap(glmr_reserve - glmr_bought)]),
                <<"GlmrPurchase", sender, glmr_bought>>,
                token_value > sender_token_balance \/ glmr_bought > glmr_reserve)

\* ------------------------------------------------------------ state machine
Origin == {"Root"} \cup Account

\* The storage of a chain whose genesis sets none of the module's items.
Init ==
    /\ GlmrBalances = [a \in Account |-> None]
    /\ TokenBalances = [a \in Account |-> None]
    /\ LiquidBalances = [a \in Account |-> None]
    /\ GlmrPoolBalance = 0
    /\ TokenPoolBalance = 0
    /\ TotalLiquidSupply = 0
    /\ TokenPrice = 0
    /\ GlmrPrice = 0
    /\ overflow_checks \in BOOLEAN
    /\ event = <<>>
    /\ underflowed = FALSE
    /\ traded = FALSE
    /\ calls = 0

\* One dispatched call: what it leaves in the storage, and what is known of it.
Dispatch(out) ==
    /\ calls < MaxCalls
    /\ GlmrBalances' = out.st.GlmrBalances
    /\ GlmrPoolBalance' = out.st.GlmrPoolBalance
    /\ TokenBalances' = out.st.TokenBalances
    /\ TokenPoolBalance' = out.st.TokenPoolBalance
    /\ LiquidBalances' = out.st.LiquidBalances
    /\ TotalLiquidSupply' = out.st.TotalLiquidSupply
    /\ TokenPrice' = out.st.TokenPrice
    /\ GlmrPrice' = out.st.GlmrPrice
    /\ event' = IF out.event = <<>> THEN event ELSE out.event
    /\ underflowed' = out.underflow
    /\ calls' = IF out.result = "Ok" THEN calls + 1 ELSE calls
    /\ UNCHANGED overflow_checks

RootDispatch(out) ==
    /\ Dispatch(out)
    /\ UNCHANGED traded

SetGlmrBalance ==
    \E origin \in Origin, account \in Account, value \in SetValues :
        RootDispatch(set_glmr_balance(Storage, origin, account, value))

SetTokenBalance ==
    \E origin \in Origin, account \in Account, value \in SetValues :
        RootDispatch(set_token_balance(Storage, origin, account, value))

TransferGlmr ==
    \E origin \in Origin, from \in Account, to \in Account, amount \in Balance :
        RootDispatch(transfer_glmr(Storage, origin, from, to, amount))

TransferToken ==
    \E origin \in Origin, from \in Account, to \in Account, amount \in Balance :
        RootDispatch(transfer_token(Storage, origin, from, to, amount))

TransferLiquid ==
    \E origin \in Origin, from \in Account, to \in Account, amount \in Balance :
        RootDispatch(transfer_liquid(Storage, origin, from, to, amount))

DepositLiquidity ==
    \E origin \in Origin, glmr_value \in Balance, token_value \in Balance :
        LET out == deposit_liquidity(Storage, origin, glmr_value, token_value) IN
        /\ Dispatch(out)
        /\ traded' = IF out.result = "Ok" /\ TotalLiquidSupply = 0 THEN FALSE ELSE traded

WithdrawLiquidity ==
    \E origin \in Origin, liquid_value \in Balance :
        /\ Dispatch(withdraw_liquidity(Storage, origin, liquid_value))
        /\ UNCHANGED traded

TradeGlmrToToken ==
    \E origin \in Origin, glmr_value \in Balance :
        LET out == trade_glmr_to_token(Storage, origin, glmr_value) IN
        /\ Dispatch(out)
        /\ traded' = (traded \/ out.result = "Ok")

TradeTokenToGlmr ==
    \E origin \in Origin, token_value \in Balance :
        LET out == trade_token_to_glmr(Storage, origin, token_value) IN
        /\ Dispatch(out)
        /\ traded' = (traded \/ out.result = "Ok")

Next ==
    \/ SetGlmrBalance
    \/ SetTokenBalance
    \/ TransferGlmr
    \/ TransferToken
    \/ TransferLiquid
    \/ DepositLiquidity
    \/ WithdrawLiquidity
    \/ TradeGlmrToToken
    \/ TradeTokenToGlmr

Spec == Init /\ [][Next]_vars

\* The calls other than the three transfers.
NextPool ==
    \/ SetGlmrBalance
    \/ SetTokenBalance
    \/ DepositLiquidity
    \/ WithdrawLiquidity
    \/ TradeGlmrToToken
    \/ TradeTokenToGlmr

SpecPool == Init /\ [][NextPool]_vars

\* ------------------------------------------------------------------ claims
\* Every claim below is stated on a reachable storage and on every call that
\* can be dispatched against it: `out` is what the call leaves behind.
RECURSIVE SumOver(_, _)
SumOver(map, accounts) ==
    IF accounts = {} THEN 0
    ELSE LET a == CHOOSE x \in accounts : TRUE
         IN balance_of(map, a) + SumOver(map, accounts \ {a})
SumBalances(map) == SumOver(map, Account)
GlmrTotal(s) == SumBalances(s.GlmrBalances) + s.GlmrPoolBalance
TokenTotal(s) == SumBalances(s.TokenBalances) + s.TokenPoolBalance
Conserved(out) ==
    /\ GlmrTotal(out.st) = GlmrTotal(Storage)
    /\ TokenTotal(out.st) = TokenTotal(Storage)
IsErr(out) == out.result \notin {"Ok", "panic"}
Untouched(out) == out.st = Storage /\ out.event = <<>>

\* C1: no deposit, withdrawal or trade, successful or failed, changes the sum
\* of the glmr balances plus the glmr reserve, nor that of the tokens.
C1_Conservation ==
    \A sender \in Account, x \in Balance :
        /\ \A y \in Balance : Conserved(deposit_liquidity(Storage, sender, x, y))
        /\ Conserved(withdraw_liquidity(Storage, sender, x))
        /\ Conserved(trade_glmr_to_token(Storage, sender, x))
        /\ Conserved(trade_token_to_glmr(Storage, sender, x))

\* C2: a call that returns an error leaves every balance, both reserves, the
\* supply and both prices as they were and deposits no event.
C2_AtomicFailure ==
    /\ \A origin \in Origin, x \in Balance :
        /\ \A y \in Balance :
             LET out == deposit_liquidity(Storage, origin, x, y)
             IN IsErr(out) => Untouched(out)
        /\ LET out == withdraw_liquidity(Storage, origin, x) IN IsErr(out) => Untouched(out)
        /\ LET out == trade_glmr_to_token(Storage, origin, x) IN IsErr(out) => Untouched(out)
        /\ LET out == trade_token_to_glmr(Storage, origin, x) IN IsErr(out) => Untouched(out)
    /\ \A origin \in Origin, from \in Account, to \in Account, amount \in Balance :
        /\ LET out == transfer_glmr(Storage, origin, from, to, amount)
           IN IsErr(out) => Untouched(out)
        /\ LET out == transfer_token(Storage, origin, from, to, amount)
           IN IsErr(out) => Untouched(out)
        /\ LET out == transfer_liquid(Storage, origin, from, to, amount)
           IN IsErr(out) => Untouched(out)

\* A pool with liquidity and tokens, on which a withdrawal of more than the
\* caller owns and a deposit the caller cannot cover both return an error.
C2_Witness ==
    /\ TotalLiquidSupply > 0 /\ TokenPoolBalance > 0
    /\ \E sender \in Account, x \in Balance :
         withdraw_liquidity(Storage, sender, x).result
           = "Trying to withdraw more than owned liquidity"
    /\ \E sender \in Account, x \in Balance :
         deposit_liquidity(Storage, sender, x, 0).result
           = "You do not have enough tokens to complete the deposit"

\* C3: the supply is zero exactly when both reserves are zero, and a
\* positive supply comes with two positive reserves.
C3_PoolInitialized ==
    /\ (TotalLiquidSupply = 0) <=> (GlmrPoolBalance = 0 /\ TokenPoolBalance = 0)
    /\ TotalLiquidSupply > 0 => (GlmrPoolBalance > 0 /\ TokenPoolBalance > 0)

\* What the call would take from an account, a reserve or the supply is more
\* than is there.
DepositOverdraws(s, sender, glmr_value, token_value) ==
    \/ glmr_value > balance_of(s.GlmrBalances, sender)
    \/ s.TotalLiquidSupply = 0 /\ token_value > balance_of(s.TokenBalances, sender)
    \/ /\ s.TotalLiquidSupply > 0 /\ s.GlmrPoolBalance > 0
       /\ Wrap((Wrap(glmr_value * s.TokenPoolBalance) \div s.GlmrPoolBalance) + 1)
            > balance_of(s.TokenBalances, sender)
WithdrawOverdraws(s, sender, liquid_value) ==
    liquid_value > balance_of(s.LiquidBalances, sender) \/ liquid_value > s.TotalLiquidSupply
Rejected(out) == out.result # "Ok" /\ Untouched(out)

Product(s) == s.GlmrPoolBalance * s.TokenPoolBalance
Grows(out) == out.result = "Ok" => Product(out.st) > Product(Storage)

\* C5: a successful trade from two positive reserves leaves the product of
\* the reserves strictly greater than it was.
C5_ProductGrows ==
    (GlmrPoolBalance > 0 /\ TokenPoolBalance > 0) =>
        \A sender \in Account, x \in Balance :
            /\ Grows(trade_glmr_to_token(Storage, sender, x))
            /\ Grows(trade_token_to_glmr(Storage, sender, x))

\* Two positive reserves on which one trade succeeds with output 0 and
\* another with a positive output.
C5_Witness ==
    /\ GlmrPoolBalance > 0 /\ TokenPoolBalance > 0
    /\ \E sender \in Account, x \in Balance :
         LET out == trade_glmr_to_token(Storage, sender, x)
         IN out.result = "Ok" /\ out.event[3] = 0
    /\ \E sender \in Account, x \in Balance :
         LET out == trade_token_to_glmr(Storage, sender, x)
         IN out.result = "Ok" /\ out.event[3] > 0

\* A successful transfer moved exactly `amount` from `from` to `to`.
Moved(before, after, from, to, amount) ==
    /\ SumBalances(after) = SumBalances(before)
    /\ IF from = to
       THEN balance_of(after, from) = balance_of(before, from)
       ELSE /\ balance_of(after, from) = balance_of(before, from) - amount
            /\ balance_of(after, to) = balance_of(before, to) + amount

\* C6: a successful transfer keeps the sum of the asset's balances, takes
\* exactly the amount from the sender and gives exactly the amount to the
\* recipient (nothing when they are the same account).
C6_TransfersConserve ==
    \A from \in Account, to \in Account, amount \in Balance :
        /\ LET out == transfer_glmr(Storage, "Root", from, to, amount)
           IN out.result = "Ok" => Moved(GlmrBalances, out.st.GlmrBalances, from, to, amount)
        /\ LET out == transfer_token(Storage, "Root", from, to, amount)
           IN out.result = "Ok" => Moved(TokenBalances, out.st.TokenBalances, from, to, amount)
        /\ LET out == transfer_liquid(Storage, "Root", from, to, amount)
           IN out.result = "Ok" => Moved(LiquidBalances, out.st.LiquidBalances, from, to, amount)

PoolEmpty == TotalLiquidSupply = 0 /\ GlmrPoolBalance = 0 /\ TokenPoolBalance = 0

\* C7: on an empty pool a deposit (B, K) by a sender holding B glmr and K
\* tokens succeeds; the reserves become B and K, the supply and the sender's
\* liquid balance B, and the sender pays exactly B glmr and K tokens.
C7_BootstrapCorrect ==
    PoolEmpty =>
        \A sender \in Account, B \in Balance, K \in Balance :
            (balance_of(GlmrBalances, sender) >= B /\ balance_of(TokenBalances, sender) >= K) =>
                LET out == deposit_liquidity(Storage, sender, B, K) IN
                /\ out.result = "Ok"
                /\ out.st.GlmrPoolBalance = B
                /\ out.st.TokenPoolBalance = K
                /\ out.st.TotalLiquidSupply = B
                /\ balance_of(out.st.LiquidBalances, sender) = B
                /\ balance_of(out.st.GlmrBalances, sender) = balance_of(GlmrBalances, sender) - B
                /\ balance_of(out.st.TokenBalances, sender) = balance_of(TokenBalances, sender) - K

\* An empty pool and a sender who can make a deposit of glmr and tokens.
C7_Witness ==
    /\ PoolEmpty
    /\ \E sender \in Account, B \in Balance, K \in Balance :
        /\ B > 0 /\ K > 0 /\ B # K
        /\ balance_of(GlmrBalances, sender) >= B
        /\ balance_of(TokenBalances, sender) >= K
        /\ deposit_liquidity(Storage, sender, B, K).result = "Ok"

\* C8: on a pool with supply S > 0 and reserves (R_b, R_t), a successful
\* deposit of g moves g glmr and floor(g * R_t / R_b) + 1 tokens from the
\* sender to the pool and mints floor(g * S / R_b) shares; a deposit whose
\* token amount exceeds the sender's token balance changes nothing.
C8_ProportionalDeposit ==
    (TotalLiquidSupply > 0 /\ GlmrPoolBalance > 0) =>
        \A sender \in Account, g \in Balance, t \in Balance :
            LET out == deposit_liquidity(Storage, sender, g, t)
                tokens == ((g * TokenPoolBalance) \div GlmrPoolBalance) + 1
                minted == (g * TotalLiquidSupply) \div GlmrPoolBalance
            IN
            /\ out.result = "Ok" =>
                 /\ out.st.GlmrPoolBalance = GlmrPoolBalance + g
                 /\ balance_of(out.st.GlmrBalances, sender) = balance_of(GlmrBalances, sender) - g
                 /\ out.st.TokenPoolBalance = TokenPoolBalance + tokens
                 /\ balance_of(out.st.TokenBalances, sender)
                      = balance_of(TokenBalances, sender) - tokens
                 /\ out.st.TotalLiquidSupply = TotalLiquidSupply + minted
                 /\ balance_of(out.st.LiquidBalances, sender)
                      = balance_of(LiquidBalances, sender) + minted
            /\ tokens > balance_of(TokenBalances, sender) => Rejected(out)

SoleHolder(a) ==
    /\ TotalLiquidSupply > 0
    /\ balance_of(LiquidBalances, a) = TotalLiquidSupply
    /\ \A b \in Account \ {a} : balance_of(LiquidBalances, b) = 0

\* C9: the only liquidity holder, withdrawing the whole supply with no trade
\* since the pool was initialized, succeeds, is paid both reserves in full
\* and leaves the supply and both reserves at zero.
C9_WithdrawRoundTrip ==
    \A a \in Account :
        (SoleHolder(a) /\ ~traded) =>
            LET out == withdraw_liquidity(Storage, a, TotalLiquidSupply) IN
            /\ out.result = "Ok"
            /\ out.st.TotalLiquidSupply = 0
            /\ out.st.GlmrPoolBalance = 0
            /\ out.st.TokenPoolBalance = 0
            /\ balance_of(out.st.GlmrBalances, a) = balance_of(GlmrBalances, a) + GlmrPoolBalance
            /\ balance_of(out.st.TokenBalances, a) = balance_of(TokenBalances, a) + TokenPoolBalance

\* C10: an account with liquid balance L > 0 can withdraw any amount from 1
\* to L, provided the glmr and tokens it is owed fit its balances.
C10_WithdrawAnyTime ==
    \A a \in Account, liquid_value \in Balance :
        (/\ 0 < liquid_value
         /\ liquid_value <= balance_of(LiquidBalances, a)
         /\ TotalLiquidSupply > 0 =>
              /\ balance_of(GlmrBalances, a)
                   + ((liquid_value * GlmrPoolBalance) \div TotalLiquidSupply) <= MaxBalance
              /\ balance_of(TokenBalances, a)
                   + ((liquid_value * TokenPoolBalance) \div TotalLiquidSupply) <= MaxBalance)
        => withdraw_liquidity(Storage, a, liquid_value).result = "Ok"

\* The transfer of the sender's whole balance went through: the sender is
\* left with 0 and the recipient has `amount` more.
WholeBalanceMoved(before, after, result, from, to) ==
    /\ result = "Ok"
    /\ balance_of(after, from) = 0
    /\ balance_of(after, to) = balance_of(before, to) + balance_of(before, from)

\* C11: a transfer by the root origin of any amount up to the sender's
\* balance, to another account whose balance does not overflow, succeeds; a
\* transfer of the whole balance leaves the sender with 0 and credits the
\* recipient with the amount.
C11_WholeBalanceTransfer ==
    \A from \in Account : \A to \in Account \ {from} :
        /\ (exists(GlmrBalances, from)
              /\ balance_of(GlmrBalances, from) + balance_of(GlmrBalances, to) <= MaxBalance) =>
             LET out == transfer_glmr(Storage, "Root", from, to, balance_of(GlmrBalances, from))
             IN WholeBalanceMoved(GlmrBalances, out.st.GlmrBalances, out.result, from, to)
        /\ (exists(TokenBalances, from)
              /\ balance_of(TokenBalances, from) + balance_of(TokenBalances, to) <= MaxBalance) =>
             LET out == transfer_token(Storage, "Root", from, to, balance_of(TokenBalances, from))
             IN WholeBalanceMoved(TokenBalances, out.st.TokenBalances, out.result, from, to)
        /\ (exists(LiquidBalances, from)
              /\ balance_of(LiquidBalances, from) + balance_of(LiquidBalances, to) <= MaxBalance) =>
             LET out == transfer_liquid(Storage, "Root", from, to, balance_of(LiquidBalances, from))
             IN WholeBalanceMoved(LiquidBalances, out.st.LiquidBalances, out.result, from, to)

\* One of the values a proportional deposit of g computes leaves the range
\* of the balance type.
DepositExceeds(s, sender, g) ==
    /\ s.TotalLiquidSupply > 0 /\ s.GlmrPoolBalance > 0
    /\ LET tokens == ((g * s.TokenPoolBalance) \div s.GlmrPoolBalance) + 1
           minted == (g * s.TotalLiquidSupply) \div s.GlmrPoolBalance
       IN \/ g * s.TokenPoolBalance > MaxBalance
          \/ g * s.TotalLiquidSupply > MaxBalance
          \/ tokens > MaxBalance
          \/ s.GlmrPoolBalance + g > MaxBalance
          \/ s.TokenPoolBalance + tokens > MaxBalance
          \/ balance_of(s.LiquidBalances, sender) + minted > MaxBalance
          \/ s.TotalLiquidSupply + minted > MaxBalance
\* One of the values a withdrawal of liquid_value computes leaves the range.
WithdrawExceeds(s, sender, liquid_value) ==
    /\ s.TotalLiquidSupply > 0
    /\ \/ liquid_value * s.GlmrPoolBalance > MaxBalance
       \/ liquid_value * s.TokenPoolBalance > MaxBalance
       \/ balance_of(s.GlmrBalances, sender)
            + ((liquid_value * s.GlmrPoolBalance) \div s.TotalLiquidSupply) > MaxBalance
       \/ balance_of(s.TokenBalances, sender)
            + ((liquid_value * s.TokenPoolBalance) \div s.TotalLiquidSupply) > MaxBalance
\* The call returned an error and wrote nothing.
Refused(out) == IsErr(out) /\ Untouched(out)

\* C12: a call one of whose products, sums or credits exceeds the largest
\* balance returns an error and changes nothing; nothing stored comes from a
\* wrapped or saturated computation.
C12_OverflowIsError ==
    /\ \A sender \in Account, x \in Balance :
        /\ DepositExceeds(Storage, sender, x) => Refused(deposit_liquidity(Storage, sender, x, 0))
        /\ WithdrawExceeds(Storage, sender, x) => Refused(withdraw_liquidity(Storage, sender, x))
        /\ (GlmrPoolBalance + x > MaxBalance) => Refused(trade_glmr_to_token(Storage, sender, x))
        /\ (TokenPoolBalance + x > MaxBalance) => Refused(trade_token_to_glmr(Storage, sender, x))
    /\ \A from \in Account, amount \in Balance : \A to \in Account \ {from} :
        /\ (balance_of(GlmrBalances, to) + amount > MaxBalance)
             => Refused(transfer_glmr(Storage, "Root", from, to, amount))
        /\ (balance_of(TokenBalances, to) + amount > MaxBalance)
             => Refused(transfer_token(Storage, "Root", from, to, amount))
        /\ (balance_of(LiquidBalances, to) + amount > MaxBalance)
             => Refused(transfer_liquid(Storage, "Root", from, to, amount))

\* C13: on a pool with liquidity the outcome of a deposit (result, storage,
\* event) is the same for every value of token_value.
C13_TokenValueIgnored ==
    TotalLiquidSupply > 0 =>
        \A sender \in Account, glmr_value \in Balance, t1 \in Balance, t2 \in Balance :
            deposit_liquidity(Storage, sender, glmr_value, t1)
              = deposit_liquidity(Storage, sender, glmr_value, t2)

\* C14: a deposit of 0 glmr returns an error and changes nothing, whether
\* the pool holds liquidity or not, for every token_value and sender.
C14_ZeroDepositRejected ==
    \A sender \in Account, token_value \in Balance :
        Refused(deposit_liquidity(Storage, sender, 0, token_value))

\* floor(amount * 997 * output_reserve / (input_reserve * 1000 + amount * 997))
Quote(amount, input_reserve, output_reserve) ==
    (amount * 997 * output_reserve) \div (input_reserve * 1000 + amount * 997)
\* The intermediates of the quote fit the widened type.
QuoteFits(amount, input_reserve, output_reserve) ==
    /\ amount * 997 * output_reserve <= U128Max
    /\ input_reserve * 1000 + amount * 997 <= U128Max

\* get_price is None on a zero amount or reserve and the floored quotient
\* when the intermediates fit.
QuoteRule(amount, input_reserve, output_reserve) ==
    IF amount = 0 \/ input_reserve = 0 \/ output_reserve = 0
    THEN get_price(amount, input_reserve, output_reserve) = None
    ELSE QuoteFits(amount, input_reserve, output_reserve) =>
           get_price(amount, input_reserve, output_reserve)
             = Quote(amount, input_reserve, output_reserve)

\* C15: on the reserves of every reachable storage, in both directions and
\* for every amount, get_price returns None when the amount or a reserve is
\* 0 and otherwise, when the intermediates fit, exactly
\* floor(amount * 997 * output / (input * 1000 + amount * 997)).
C15_QuoteFunction ==
    \A amount \in Balance :
        /\ QuoteRule(amount, GlmrPoolBalance, TokenPoolBalance)
        /\ QuoteRule(amount, TokenPoolBalance, GlmrPoolBalance)

\* Two positive reserves on which a trade succeeds and pays the positive
\* quote of its input, while another input is quoted 0.
C15_Witness ==
    /\ GlmrPoolBalance > 0 /\ TokenPoolBalance > 0
    /\ \E sender \in Account, x \in Balance :
         LET out == trade_glmr_to_token(Storage, sender, x)
         IN /\ out.result = "Ok"
            /\ out.event[3] = Quote(x, GlmrPoolBalance, TokenPoolBalance)
            /\ out.event[3] > 0
    /\ \E x \in Balance : x > 0 /\ get_price(x, TokenPoolBalance, GlmrPoolBalance) = 0

\* The two quotes of the unit amount on the reserves of s, one per direction.
UnitQuotes(s) ==
    <<get_price(price_unit, s.TokenPoolBalance, s.GlmrPoolBalance),
      get_price(price_unit, s.GlmrPoolBalance, s.TokenPoolBalance)>>
\* The snapshot the call leaves: the two quotes on the new reserves when the
\* call succeeded and both exist, the previous snapshot otherwise.
SnapshotRule(out) ==
    LET q == UnitQuotes(out.st) IN
    IF out.result = "Ok" /\ q[1] # None /\ q[2] # None
    THEN \/ out.st.GlmrPrice = q[1] /\ out.st.TokenPrice = q[2]
         \/ out.st.GlmrPrice = q[2] /\ out.st.TokenPrice = q[1]
    ELSE out.st.GlmrPrice = GlmrPrice /\ out.st.TokenPrice = TokenPrice
SnapshotKept(out) == out.st.GlmrPrice = GlmrPrice /\ out.st.TokenPrice = TokenPrice

\* Every call that can be dispatched on the current storage follows the
\* snapshot rule; set-balance and the transfers keep the snapshot.
SnapshotUpdated ==
    /\ \A origin \in Origin, x \in Balance :
        /\ \A y \in Balance : SnapshotRule(deposit_liquidity(Storage, origin, x, y))
        /\ SnapshotRule(withdraw_liquidity(Storage, origin, x))
        /\ SnapshotRule(trade_glmr_to_token(Storage, origin, x))
        /\ SnapshotRule(trade_token_to_glmr(Storage, origin, x))
    /\ \A origin \in Origin, account \in Account, value \in Balance :
        /\ SnapshotKept(set_glmr_balance(Storage, origin, account, value))
        /\ SnapshotKept(set_token_balance(Storage, origin, account, value))
    /\ \A origin \in Origin, from \in Account, to \in Account, amount \in Balance :
        /\ SnapshotKept(transfer_glmr(Storage, origin, from, to, amount))
        /\ SnapshotKept(transfer_token(Storage, origin, from, to, amount))
        /\ SnapshotKept(transfer_liquid(Storage, origin, from, to, amount))

\* C16: always, a successful deposit, withdrawal or swap overwrites both
\* snapshot values with the two quotes of the unit amount on the new reserves
\* when both quotes succeed and keeps both otherwise; a failed call, a
\* set-balance and a transfer never change the snapshot.
C16_SnapshotUpdate == []SnapshotUpdated

\* A snapshot with a positive price, on which one withdrawal empties both
\* reserves (no quote afterwards) and one trade changes the snapshot.
C16_Witness ==
    /\ GlmrPrice > 0
    /\ \E sender \in Account, x \in Balance :
         LET out == withdraw_liquidity(Storage, sender, x)
         IN /\ out.result = "Ok"
            /\ out.st.GlmrPoolBalance = 0 /\ out.st.TokenPoolBalance = 0
            /\ UnitQuotes(out.st) = <<None, None>>
    /\ \E sender \in Account, x \in Balance :
         LET out == trade_glmr_to_token(Storage, sender, x)
         IN out.result = "Ok" /\ out.st.GlmrPrice # GlmrPrice

\* GlmrPrice is what one unit of glmr buys in tokens and TokenPrice what one
\* unit of tokens buys in glmr, on the reserves of the storage the call left.
SnapshotMeans(out) ==
    LET glmr_in_tokens == get_price(price_unit, out.st.GlmrPoolBalance, out.st.TokenPoolBalance)
        token_in_glmr == get_price(price_unit, out.st.TokenPoolBalance, out.st.GlmrPoolBalance)
    IN (out.result = "Ok" /\ glmr_in_tokens # None /\ token_in_glmr # None) =>
          /\ out.st.GlmrPrice = glmr_in_tokens
          /\ out.st.TokenPrice = token_in_glmr

\* C17: after a successful deposit, withdrawal or swap whose two quotes
\* succeed, GlmrPrice = get_price(unit, glmr reserve, token reserve) and
\* TokenPrice = get_price(unit, token reserve, glmr reserve).
C17_SnapshotMeaning ==
    \A sender \in Account, x \in Balance :
        /\ \A y \in Balance : SnapshotMeans(deposit_liquidity(Storage, sender, x, y))
        /\ SnapshotMeans(withdraw_liquidity(Storage, sender, x))
        /\ SnapshotMeans(trade_glmr_to_token(Storage, sender, x))
        /\ SnapshotMeans(trade_token_to_glmr(Storage, sender, x))

\* C18: the reserve checks of the two swaps and of withdraw_liquidity never
\* fail; a quote is strictly below the output reserve, and a successful swap
\* leaves the reserve it pays from positive.
C18_ReserveChecksUnreachable ==
    \A sender \in Account, x \in Balance :
        /\ LET bought == get_price(x, GlmrPoolBalance, TokenPoolBalance)
               out == trade_glmr_to_token(Storage, sender, x)
           IN /\ bought # None => bought < TokenPoolBalance
              /\ out.result # "Not enough tokens to execute trade"
              /\ out.result = "Ok" => out.st.TokenPoolBalance > 0
        /\ LET bought == get_price(x, TokenPoolBalance, GlmrPoolBalance)
               out == trade_token_to_glmr(Storage, sender, x)
           IN /\ bought # None => bought < GlmrPoolBalance
              /\ out.result # "Not enough glmr to execute trade"
              /\ out.result = "Ok" => out.st.GlmrPoolBalance > 0
        /\ withdraw_liquidity(Storage, sender, x).result
             \notin {"Trying to withdraw more GLMR than is in the pool",
                     "Trying to withdraw more Token than is in the pool"}
        /\ (TotalLiquidSupply > 0 /\ x <= TotalLiquidSupply) =>
             /\ Wrap(x * GlmrPoolBalance) \div TotalLiquidSupply <= GlmrPoolBalance
             /\ Wrap(x * TokenPoolBalance) \div TotalLiquidSupply <= TokenPoolBalance

\* Two positive reserves on which a swap in each direction succeeds with a
\* positive output, and a holder's withdrawal passes the two reserve checks.
C18_Witness ==
    /\ GlmrPoolBalance > 0 /\ TokenPoolBalance > 0 /\ TotalLiquidSupply > 0
    /\ \E sender \in Account, x \in Balance :
         LET out == trade_glmr_to_token(Storage, sender, x)
         IN out.result = "Ok" /\ out.event[3] > 0 /\ out.st.TokenPoolBalance < TokenPoolBalance
    /\ \E sender \in Account, x \in Balance :
         LET out == trade_token_to_glmr(Storage, sender, x)
         IN out.result = "Ok" /\ out.event[3] > 0 /\ out.st.GlmrPoolBalance < GlmrPoolBalance
    /\ \E sender \in Account, x \in Balance :
         x > 0 /\ withdraw_liquidity(Storage, sender, x).result = "Ok"

\* The reserves behind each share have not shrunk: with (R_b, R_t, S) before
\* the call and (R_b', R_t', S') after, R_b' * S >= R_b * S' and
\* R_t' * S >= R_t * S'.
NotDiluted(out) ==
    (out.result = "Ok" /\ out.st.TotalLiquidSupply > 0) =>
        /\ out.st.GlmrPoolBalance * TotalLiquidSupply
             >= GlmrPoolBalance * out.st.TotalLiquidSupply
        /\ out.st.TokenPoolBalance * TotalLiquidSupply
             >= TokenPoolBalance * out.st.TotalLiquidSupply

\* C19: a successful proportional deposit, and a successful withdrawal that
\* leaves shares outstanding, do not lower the glmr or the tokens behind a
\* share; the deposit mints at most floor(g * S / R_b) shares and the
\* withdrawal pays at most liquid_value * reserve / S of each asset.
C19_NoDilution ==
    TotalLiquidSupply > 0 =>
        \A sender \in Account, x \in Balance :
            /\ LET out == deposit_liquidity(Storage, sender, x, 0) IN
               /\ NotDiluted(out)
               /\ out.result = "Ok" =>
                    (out.st.TotalLiquidSupply - TotalLiquidSupply) * GlmrPoolBalance
                      <= x * TotalLiquidSupply
            /\ LET out == withdraw_liquidity(Storage, sender, x) IN
               /\ NotDiluted(out)
               /\ out.result = "Ok" =>
                    /\ (GlmrPoolBalance - out.st.GlmrPoolBalance) * TotalLiquidSupply
                         <= x * GlmrPoolBalance
                    /\ (TokenPoolBalance - out.st.TokenPoolBalance) * TotalLiquidSupply
                         <= x * TokenPoolBalance

====
